---- MODULE Spec2Model ----
(***************************************************************************)
(* Model of the dashboard notification bar                                 *)
(* (alvr/dashboard/src/dashboard/components/notifications.rs).             *)
(*                                                                         *)
(* The bar keeps one displayed message.  push_notification arbitrates      *)
(* incoming log events by severity and by a 5 second display window,       *)
(* update_settings refreshes the severity threshold and the sticky tip,    *)
(* and ui (the render tick) decays an expired message to the tip or the    *)
(* idle string.  Instant::now() is modelled by the clock variable now,     *)
(* which AdvanceClock moves forward in whole seconds.                      *)
(***************************************************************************)
EXTENDS Integers, Sequences, FiniteSets, TLC

VARIABLES
    message,                \* NotificationBar.message
    current_level,          \* NotificationBar.current_level
    receive_instant,        \* NotificationBar.receive_instant
    min_notification_level, \* NotificationBar.min_notification_level
    tip_message,            \* NotificationBar.tip_message (Option<String>)
    expanded,               \* NotificationBar.expanded
    now,                    \* the monotonic clock read by Instant::now()
    debug_assertions,       \* cfg!(debug_assertions): fixed at build time
    last_op,                \* history: the last operation and its arguments
    pre,                    \* history: the bar's fields before the last operation
    shown,                  \* history: the event that produced message, or NoEvent
    latest_settings         \* history: the latest snapshot given to update_settings

bar == <<message, current_level, receive_instant, min_notification_level,
         tip_message, expanded>>

vars == <<message, current_level, receive_instant, min_notification_level,
          tip_message, expanded, now, debug_assertions, last_op, pre, shown,
          latest_settings>>

\* ------------------------------------------------------------------ bounds
\* The clock stops advancing at MaxTime seconds after construction.
MaxTime == 7
\* Number of distinct event contents the log source produces.
NumContents == 2
\* Number of entries of the tip catalog that are modelled.
NumTips == 2

\* --------------------------------------------------------------- constants
\* LogSeverity, ordered Debug < Info < Warning < Error.
Debug == 0
Info == 1
Warning == 2
Error == 3
LogSeverity == Debug..Error

\* const TIMEOUT: Duration = Duration::from_secs(5)
TIMEOUT == 5

NO_NOTIFICATIONS_MESSAGE == "No new notifications"

\* The catalog of tips (a non-empty slice of string literals).
NOTIFICATION_TIPS == { "tip" \o ToString(i) : i \in 1..NumTips }

\* Contents of the log entries the event source can produce.
Contents == { "event" \o ToString(i) : i \in 1..NumContents }

\* LogEntry, restricted to the fields the bar reads.
LogEntry == [content : Contents, severity : LogSeverity]

\* Settings, restricted to extra.logging.{notification_level, show_notification_tip}.
Settings == [notification_level : LogSeverity, show_notification_tip : BOOLEAN]

\* Option<String>: None is the empty sequence, Some(s) the one-element sequence.
None == <<>>
Some(s) == <<s>>
NoEvent == [content |-> "", severity |-> -1]
NoSettings == [notification_level |-> -1, show_notification_tip |-> FALSE]

\* ----------------------------------------------------------------- helpers
\* Variant: the label is left out.
FormatTipNoLabel(s) == s

\* format!("Tip: {s}")
FormatTip(s) == "Tip: " \o s

\* The fields of the bar that an operation may overwrite with a value that
\* is not one of its arguments, as a record (used to remember the pre-state).
BarState == [message |-> message,
             current_level |-> current_level,
             receive_instant |-> receive_instant,
             tip_message |-> tip_message]

\* Variant: the build-mode branches are exchanged.
MinSeveritySwapped(from_dashboard) ==
    IF from_dashboard
    THEN IF debug_assertions THEN Info ELSE Debug
    ELSE min_notification_level

\* Variant: the configured threshold is used for every origin.
MinSeverityThresholdForAll(from_dashboard) == min_notification_level

\* let min_severity = if from_dashboard { if cfg!(debug_assertions) {Debug} else {Info} }
\*                    else { self.min_notification_level }
MinSeverity(from_dashboard) ==
    IF from_dashboard
    THEN IF debug_assertions THEN Debug ELSE Info
    ELSE min_notification_level

\* Variant: the threshold test is off by one level.
AdmittedOneBelow(event, from_dashboard) ==
    event.severity + 1 >= MinSeverity(from_dashboard)

\* Variant: the configured threshold is never applied.
AdmittedByBuildOnly(event, from_dashboard) ==
    event.severity >= (IF debug_assertions THEN Debug ELSE Info)

\* event.severity >= min_severity
Admitted(event, from_dashboard) ==
    event.severity >= MinSeverity(from_dashboard)

\* Variant: the window closes at exactly TIMEOUT.
ExpiredAtTimeout == now >= receive_instant + TIMEOUT

\* now > self.receive_instant + TIMEOUT
Expired == now > receive_instant + TIMEOUT

\* Variant: an equally severe event does not preempt.
PreemptsStrict(event) ==
    Expired \/ event.severity > current_level

\* Variant: the expiry of the window is not consulted.
PreemptsBySeverityOnly(event) ==
    event.severity >= current_level

\* now > self.receive_instant + TIMEOUT || event.severity >= self.current_level
Preempts(event) ==
    Expired \/ event.severity >= current_level

\* Variant: the tip is never used as the fallback.
FallbackIdleOnly(tip) == NO_NOTIFICATIONS_MESSAGE

\* self.tip_message.clone().unwrap_or_else(|| NO_NOTIFICATIONS_MESSAGE.into())
Fallback(tip) ==
    IF tip = None THEN NO_NOTIFICATIONS_MESSAGE ELSE tip[1]

\* ------------------------------------------------------------------- state
\* Variant: the bar starts with the threshold at Info.
Init_ThresholdInfo ==
    /\ now = 0
    /\ debug_assertions \in BOOLEAN
    /\ message = NO_NOTIFICATIONS_MESSAGE
    /\ current_level = Debug
    /\ receive_instant = now
    /\ min_notification_level = Info
    /\ tip_message = None
    /\ expanded = FALSE
    /\ last_op = [op |-> "new"]
    /\ pre = [message |-> NO_NOTIFICATIONS_MESSAGE,
              current_level |-> Debug,
              receive_instant |-> 0,
              tip_message |-> None]
    /\ shown = NoEvent
    /\ latest_settings = NoSettings

\* NotificationBar::new()
Init ==
    /\ now = 0
    /\ debug_assertions \in BOOLEAN
    /\ message = NO_NOTIFICATIONS_MESSAGE
    /\ current_level = Debug
    /\ receive_instant = now
    /\ min_notification_level = Debug
    /\ tip_message = None
    /\ expanded = FALSE
    /\ last_op = [op |-> "new"]
    /\ pre = [message |-> NO_NOTIFICATIONS_MESSAGE,
              current_level |-> Debug,
              receive_instant |-> 0,
              tip_message |-> None]
    /\ shown = NoEvent
    /\ latest_settings = NoSettings

\* Variant: disabling the tip also takes a displayed tip off the display.
update_settings_ClearsDisplayedTip(settings) ==
    /\ min_notification_level' = settings.notification_level
    /\ IF settings.show_notification_tip
       THEN IF tip_message = None
            THEN \E s \in NOTIFICATION_TIPS : tip_message' = Some(FormatTip(s))
            ELSE tip_message' = tip_message
       ELSE tip_message' = None
    /\ message' = IF /\ ~settings.show_notification_tip
                     /\ tip_message = Some(message)
                  THEN NO_NOTIFICATIONS_MESSAGE
                  ELSE message
    /\ UNCHANGED <<current_level, receive_instant, expanded>>
    /\ UNCHANGED <<now, debug_assertions, shown>>
    /\ last_op' = [op |-> "update_settings", settings |-> settings,
                   repeated |-> (/\ last_op.op = "update_settings"
                                 /\ last_op.settings = settings)]
    /\ pre' = BarState
    /\ latest_settings' = settings

\* Variant: the tip is chosen again on every enabling call.
update_settings_Rechoose(settings) ==
    /\ min_notification_level' = settings.notification_level
    /\ IF settings.show_notification_tip
       THEN \E s \in NOTIFICATION_TIPS : tip_message' = Some(FormatTip(s))
       ELSE tip_message' = None
    /\ UNCHANGED <<message, current_level, receive_instant, expanded>>
    /\ UNCHANGED <<now, debug_assertions, shown>>
    /\ last_op' = [op |-> "update_settings", settings |-> settings,
                   repeated |-> (/\ last_op.op = "update_settings"
                                 /\ last_op.settings = settings)]
    /\ pre' = BarState
    /\ latest_settings' = settings

\* NotificationBar::update_settings(&mut self, settings)
update_settings(settings) ==
    /\ min_notification_level' = settings.notification_level
    /\ IF settings.show_notification_tip
       THEN IF tip_message = None
            THEN \E s \in NOTIFICATION_TIPS : tip_message' = Some(FormatTip(s))
            ELSE tip_message' = tip_message
       ELSE tip_message' = None
    /\ UNCHANGED <<message, current_level, receive_instant, expanded>>
    /\ UNCHANGED <<now, debug_assertions, shown>>
    /\ last_op' = [op |-> "update_settings", settings |-> settings,
                   repeated |-> (/\ last_op.op = "update_settings"
                                 /\ last_op.settings = settings)]
    /\ pre' = BarState
    /\ latest_settings' = settings

\* Variant: the content is stored before the event is arbitrated.
push_notification_StoresContentFirst(event, from_dashboard) ==
    /\ message' = event.content
    /\ IF Admitted(event, from_dashboard) /\ Preempts(event)
       THEN /\ current_level' = event.severity
            /\ receive_instant' = now
            /\ shown' = event
       ELSE UNCHANGED <<current_level, receive_instant, shown>>
    /\ UNCHANGED <<min_notification_level, tip_message, expanded>>
    /\ UNCHANGED <<now, debug_assertions, latest_settings>>
    /\ last_op' = [op |-> "push_notification", event |-> event,
                   from_dashboard |-> from_dashboard,
                   accepted |-> (/\ Admitted(event, from_dashboard)
                                 /\ Preempts(event))]
    /\ pre' = BarState

\* Variant: the end of the window is stored instead of its start.
push_notification_StoresDeadline(event, from_dashboard) ==
    /\ IF Admitted(event, from_dashboard) /\ Preempts(event)
       THEN /\ message' = event.content
            /\ current_level' = event.severity
            /\ receive_instant' = now + TIMEOUT
            /\ shown' = event
       ELSE UNCHANGED <<message, current_level, receive_instant, shown>>
    /\ UNCHANGED <<min_notification_level, tip_message, expanded>>
    /\ UNCHANGED <<now, debug_assertions, latest_settings>>
    /\ last_op' = [op |-> "push_notification", event |-> event,
                   from_dashboard |-> from_dashboard,
                   accepted |-> (/\ Admitted(event, from_dashboard)
                                 /\ Preempts(event))]
    /\ pre' = BarState

\* NotificationBar::push_notification(&mut self, event, from_dashboard)
push_notification(event, from_dashboard) ==
    /\ IF Admitted(event, from_dashboard) /\ Preempts(event)
       THEN /\ message' = event.content
            /\ current_level' = event.severity
            /\ receive_instant' = now
            /\ shown' = event
       ELSE UNCHANGED <<message, current_level, receive_instant, shown>>
    /\ UNCHANGED <<min_notification_level, tip_message, expanded>>
    /\ UNCHANGED <<now, debug_assertions, latest_settings>>
    /\ last_op' = [op |-> "push_notification", event |-> event,
                   from_dashboard |-> from_dashboard,
                   accepted |-> (/\ Admitted(event, from_dashboard)
                                 /\ Preempts(event))]
    /\ pre' = BarState

\* Variant: the decay waits one second longer than the window.
ui_DecaysLate(clicked) ==
    /\ IF now > receive_instant + TIMEOUT + 1
       THEN /\ message' = Fallback(tip_message)
            /\ current_level' = Debug
            /\ shown' = NoEvent
       ELSE UNCHANGED <<message, current_level, shown>>
    /\ expanded' = IF clicked THEN ~expanded ELSE expanded
    /\ UNCHANGED <<receive_instant, min_notification_level, tip_message>>
    /\ UNCHANGED <<now, debug_assertions, latest_settings>>
    /\ last_op' = [op |-> "ui", clicked |-> clicked]
    /\ pre' = BarState

\* Variant: the decay restarts the timer.
ui_RestartsTimer(clicked) ==
    /\ IF Expired
       THEN /\ message' = Fallback(tip_message)
            /\ current_level' = Debug
            /\ receive_instant' = now
            /\ shown' = NoEvent
       ELSE UNCHANGED <<message, current_level, receive_instant, shown>>
    /\ expanded' = IF clicked THEN ~expanded ELSE expanded
    /\ UNCHANGED <<min_notification_level, tip_message>>
    /\ UNCHANGED <<now, debug_assertions, latest_settings>>
    /\ last_op' = [op |-> "ui", clicked |-> clicked]
    /\ pre' = BarState

\* Variant: the decay replaces the text but keeps the severity.
ui_KeepsLevel(clicked) ==
    /\ IF Expired
       THEN /\ message' = Fallback(tip_message)
            /\ shown' = NoEvent
       ELSE UNCHANGED <<message, shown>>
    /\ UNCHANGED current_level
    /\ expanded' = IF clicked THEN ~expanded ELSE expanded
    /\ UNCHANGED <<receive_instant, min_notification_level, tip_message>>
    /\ UNCHANGED <<now, debug_assertions, latest_settings>>
    /\ last_op' = [op |-> "ui", clicked |-> clicked]
    /\ pre' = BarState

\* NotificationBar::ui(&mut self, context); clicked is whether the user
\* clicked the Expand/Reduce button during this frame.
ui(clicked) ==
    /\ IF Expired
       THEN /\ message' = Fallback(tip_message)
            /\ current_level' = Debug
            /\ shown' = NoEvent
       ELSE UNCHANGED <<message, current_level, shown>>
    /\ expanded' = IF clicked THEN ~expanded ELSE expanded
    /\ UNCHANGED <<receive_instant, min_notification_level, tip_message>>
    /\ UNCHANGED <<now, debug_assertions, latest_settings>>
    /\ last_op' = [op |-> "ui", clicked |-> clicked]
    /\ pre' = BarState

\* One second passes on the monotonic clock between two calls.
AdvanceClock ==
    /\ now < MaxTime
    /\ now' = now + 1
    /\ UNCHANGED <<message, current_level, receive_instant,
                   min_notification_level, tip_message, expanded>>
    /\ UNCHANGED <<debug_assertions, shown, latest_settings>>
    /\ last_op' = [op |-> "advance"]
    /\ pre' = BarState

Next ==
    \/ \E settings \in Settings : update_settings(settings)
    \/ \E event \in LogEntry, from_dashboard \in BOOLEAN :
           push_notification(event, from_dashboard)
    \/ \E clicked \in BOOLEAN : ui(clicked)
    \/ AdvanceClock

Spec == Init /\ [][Next]_vars

\* The event source falls silent early enough for the window of the last
\* accepted event to end before the clock stops at MaxTime.
push_before_horizon(event, from_dashboard) ==
    /\ now + TIMEOUT < MaxTime
    /\ push_notification(event, from_dashboard)

LiveNext ==
    \/ \E settings \in Settings : update_settings(settings)
    \/ \E event \in LogEntry, from_dashboard \in BOOLEAN :
           push_before_horizon(event, from_dashboard)
    \/ \E clicked \in BOOLEAN : ui(clicked)
    \/ AdvanceClock

\* Time keeps advancing and the render loop keeps calling ui every frame.
LiveSpec ==
    /\ Init
    /\ [][LiveNext]_vars
    /\ WF_vars(AdvanceClock)
    /\ WF_vars(\E clicked \in BOOLEAN : ui(clicked))

TypeOK ==
    /\ message \in Contents \cup {NO_NOTIFICATIONS_MESSAGE}
                  \cup { FormatTip(s) : s \in NOTIFICATION_TIPS }
    /\ current_level \in LogSeverity
    /\ receive_instant \in 0..MaxTime
    /\ min_notification_level \in LogSeverity
    /\ tip_message \in {None} \cup { Some(FormatTip(s)) : s \in NOTIFICATION_TIPS }
    /\ expanded \in BOOLEAN
    /\ now \in 0..MaxTime
    /\ debug_assertions \in BOOLEAN

\* ------------------------------------------------- vocabulary of the claims
IsPush == last_op.op = "push_notification"
IsUi == last_op.op = "ui"
IsUpdate == last_op.op = "update_settings"

\* The texts the decay can display.
TipTexts == { "Tip: " \o s : s \in NOTIFICATION_TIPS }

\* The last call accepted event e: it is displayed with its severity and the
\* time of the call (the clock does not move during a call).
Displayed(e) ==
    /\ message = e.content
    /\ current_level = e.severity
    /\ receive_instant = now

\* The last call left the displayed message, its severity and its time alone.
DisplayUnchanged ==
    /\ message = pre.message
    /\ current_level = pre.current_level
    /\ receive_instant = pre.receive_instant

\* The window of the message displayed before the last call had expired at
\* the time of the call.
PreExpired == now > pre.receive_instant + TIMEOUT

\* ------------------------------------------------------------------ claims
\* C1 (as stated): when an event E1 is displayed and an event E2 at least as
\* severe is pushed before the end of E1's window, E2 is displayed.
C1_Original ==
    (/\ IsPush
     /\ pre.message \in Contents
     /\ last_op.event.severity >= pre.current_level
     /\ now < pre.receive_instant + TIMEOUT)
    => Displayed(last_op.event)

\* C1 (amended): when an event E1 is displayed and an event E2 at least as
\* severe that passes admission is pushed before the end of E1's window, E2
\* is displayed: message, current_level and receive_instant are those of E2.
C1_AdmittedPreempts ==
    (/\ IsPush
     /\ pre.message \in Contents
     /\ last_op.event.severity >= pre.current_level
     /\ last_op.event.severity >= MinSeverity(last_op.from_dashboard)
     /\ now < pre.receive_instant + TIMEOUT)
    => Displayed(last_op.event)

C1_Witness ==
    /\ IsPush
    /\ pre.message \in Contents
    /\ last_op.event.severity = pre.current_level
    /\ last_op.event.severity >= MinSeverity(last_op.from_dashboard)
    /\ now > pre.receive_instant
    /\ now < pre.receive_instant + TIMEOUT
    /\ Displayed(last_op.event)
    /\ message # pre.message

\* C2: an event pushed with a severity strictly below current_level while no
\* more than TIMEOUT has elapsed since receive_instant is dropped: message,
\* current_level and receive_instant keep their values.
C2_LessSevereDroppedInWindow ==
    (/\ IsPush
     /\ last_op.event.severity < pre.current_level
     /\ now <= pre.receive_instant + TIMEOUT)
    => DisplayUnchanged

C2_Witness ==
    /\ IsPush
    /\ last_op.event.severity < pre.current_level
    /\ last_op.event.severity >= MinSeverity(last_op.from_dashboard)
    /\ now = pre.receive_instant + TIMEOUT
    /\ pre.message \in Contents
    /\ message = pre.message
    /\ message # last_op.event.content

\* C3: a push of an event whose severity is below the effective minimum
\* severity changes no field of the bar.
C3_RejectedChangesNothing ==
    [][(/\ last_op'.op = "push_notification"
        /\ last_op'.event.severity < MinSeverity(last_op'.from_dashboard))
       => UNCHANGED bar]_vars

C3_Witness ==
    /\ IsPush
    /\ last_op.event.severity < MinSeverity(last_op.from_dashboard)
    /\ last_op.event.severity >= pre.current_level
    /\ pre.message \in Contents
    /\ PreExpired
    /\ DisplayUnchanged

\* C4: once more than TIMEOUT has elapsed since receive_instant, an event
\* that passes admission is displayed whatever its severity, also when no
\* render tick has run since the expiry.
C4_ExpiredAcceptsAdmitted ==
    (/\ IsPush
     /\ PreExpired
     /\ last_op.event.severity >= MinSeverity(last_op.from_dashboard))
    => Displayed(last_op.event)

C4_Witness ==
    /\ IsPush
    /\ PreExpired
    /\ last_op.event.severity >= MinSeverity(last_op.from_dashboard)
    /\ last_op.event.severity < pre.current_level
    /\ Displayed(last_op.event)
    /\ message # pre.message

\* C5 (as stated): a push of an event whose severity is below
\* min_notification_level, unless it comes from the dashboard in a production
\* build, changes no field of the bar.
C5_Original ==
    [][(/\ last_op'.op = "push_notification"
        /\ last_op'.event.severity < min_notification_level
        /\ ~(last_op'.from_dashboard /\ ~debug_assertions))
       => UNCHANGED bar]_vars

\* C5 (amended): a push of an event whose severity is below
\* min_notification_level, unless it comes from the dashboard (in either
\* build mode), changes no field of the bar, whatever the state and the
\* elapsed time.
C5_BelowThresholdDropped ==
    [][(/\ last_op'.op = "push_notification"
        /\ last_op'.event.severity < min_notification_level
        /\ ~last_op'.from_dashboard)
       => UNCHANGED bar]_vars

C5_Witness ==
    /\ IsPush
    /\ ~last_op.from_dashboard
    /\ last_op.event.severity < min_notification_level
    /\ last_op.event.severity > pre.current_level
    /\ PreExpired
    /\ DisplayUnchanged

\* C6: in a development build an event pushed from the dashboard is never
\* stopped by admission: it is displayed exactly when the window has expired
\* or its severity is at least current_level, and dropped otherwise.
C6_DevDashboardAlwaysAdmitted ==
    (debug_assertions /\ IsPush /\ last_op.from_dashboard)
    => IF PreExpired \/ last_op.event.severity >= pre.current_level
       THEN Displayed(last_op.event)
       ELSE DisplayUnchanged

C6_Witness ==
    /\ debug_assertions
    /\ IsPush
    /\ last_op.from_dashboard
    /\ min_notification_level = Error
    /\ last_op.event.severity = Debug
    /\ pre.message = NO_NOTIFICATIONS_MESSAGE
    /\ Displayed(last_op.event)

\* C7 (as stated): a render tick run exactly TIMEOUT after receive_instant
\* displays the tip if there is one, else the idle string, with severity
\* Debug.
C7_Original ==
    (IsUi /\ now = pre.receive_instant + TIMEOUT)
    => (message = Fallback(tip_message) /\ current_level = Debug)

\* C7 (amended): a render tick run more than TIMEOUT after receive_instant
\* displays the tip if there is one, else the idle string, with severity
\* Debug; a tick run no later than TIMEOUT after receive_instant leaves the
\* message and its severity alone.
C7_TickDecaysAfterTimeout ==
    IsUi =>
        IF PreExpired
        THEN /\ message = (IF tip_message = None
                           THEN NO_NOTIFICATIONS_MESSAGE ELSE tip_message[1])
             /\ current_level = Debug
        ELSE /\ message = pre.message
             /\ current_level = pre.current_level

C7_Witness ==
    /\ IsUi
    /\ PreExpired
    /\ pre.message \in Contents
    /\ pre.current_level = Error
    /\ tip_message # None
    /\ message = tip_message[1]
    /\ current_level = Debug

\* C8: current_level is the severity of the event that produced message, and
\* is Debug when message is the idle string or a tip text produced by the
\* decay.
C8_LevelMatchesMessage ==
    IF shown = NoEvent
    THEN /\ message \in {NO_NOTIFICATIONS_MESSAGE} \cup TipTexts
         /\ current_level = Debug
    ELSE /\ message = shown.content
         /\ current_level = shown.severity

C8_Witness ==
    /\ IsUi
    /\ shown = NoEvent
    /\ pre.message \in Contents
    /\ pre.current_level = Warning
    /\ message \in TipTexts
    /\ current_level = Debug
    /\ latest_settings # NoSettings

\* C9: tip_message is None whenever the latest snapshot disables the tip,
\* and no step between two states whose latest snapshot enables the tip
\* changes tip_message.
C9_TipStickyWhileEnabled ==
    /\ [](~latest_settings.show_notification_tip => tip_message = None)
    /\ [][(/\ latest_settings.show_notification_tip
           /\ latest_settings'.show_notification_tip)
          => (tip_message # None /\ tip_message' = tip_message)]_vars

C9_Witness ==
    /\ IsUpdate
    /\ last_op.settings.show_notification_tip
    /\ pre.tip_message # None
    /\ tip_message = pre.tip_message
    /\ min_notification_level # Debug

\* C10: a tip held by the bar is always the label "Tip: " followed by an
\* entry of the catalog; the witness is a re-enabling call that selects a
\* tip different from the one held (and displayed) before the disabling.
C10_TipIsLabelledCatalogEntry ==
    tip_message # None =>
        \E s \in NOTIFICATION_TIPS : tip_message = <<"Tip: " \o s>>

C10_Witness ==
    /\ IsUpdate
    /\ last_op.settings.show_notification_tip
    /\ pre.tip_message = None
    /\ message \in TipTexts
    /\ tip_message # None
    /\ tip_message # <<message>>

\* The text the decay displays for the tip currently held.
CurrentFallback ==
    IF tip_message = None THEN NO_NOTIFICATIONS_MESSAGE ELSE tip_message[1]

\* C11: a call of update_settings with the same snapshot as the call just
\* before it changes no field of the bar.
C11_UpdateSettingsIdempotent ==
    [][(/\ last_op.op = "update_settings"
        /\ last_op'.op = "update_settings"
        /\ last_op'.settings = last_op.settings)
       => UNCHANGED bar]_vars

C11_Witness ==
    /\ IsUpdate
    /\ last_op.repeated
    /\ last_op.settings.show_notification_tip
    /\ last_op.settings.notification_level = Warning
    /\ tip_message # None
    /\ tip_message = pre.tip_message

\* C12: the constructed bar shows the idle string with severity Debug, was
\* received at the time of construction, has threshold Debug, no tip and is
\* not expanded; and before any update_settings call a push from a
\* non-dashboard origin is never stopped by admission.
C12_ConstructionState ==
    /\ last_op.op = "new" =>
          /\ message = "No new notifications"
          /\ current_level = Debug
          /\ receive_instant = now
          /\ min_notification_level = Debug
          /\ tip_message = None
          /\ expanded = FALSE
    /\ (latest_settings = NoSettings /\ IsPush /\ ~last_op.from_dashboard) =>
          IF PreExpired \/ last_op.event.severity >= pre.current_level
          THEN Displayed(last_op.event)
          ELSE DisplayUnchanged

C12_Witness ==
    /\ latest_settings = NoSettings
    /\ IsPush
    /\ ~last_op.from_dashboard
    /\ last_op.event.severity = Debug
    /\ pre.message = NO_NOTIFICATIONS_MESSAGE
    /\ message = last_op.event.content
    /\ current_level = Debug

\* C13: for a push from the dashboard the minimum severity is Debug in a
\* development build and Info in a production build, whatever
\* min_notification_level is: the event is displayed exactly when it reaches
\* that minimum and preempts, and dropped otherwise.
C13_DashboardMinimumByBuild ==
    (IsPush /\ last_op.from_dashboard) =>
        IF /\ last_op.event.severity >= (IF debug_assertions THEN Debug ELSE Info)
           /\ (PreExpired \/ last_op.event.severity >= pre.current_level)
        THEN Displayed(last_op.event)
        ELSE DisplayUnchanged

C13_Witness ==
    /\ ~debug_assertions
    /\ IsPush
    /\ last_op.from_dashboard
    /\ last_op.event.severity = Info
    /\ min_notification_level = Error
    /\ Displayed(last_op.event)
    /\ message # pre.message

\* C14: a render tick never changes receive_instant, min_notification_level
\* or tip_message; and once the expired display shows the current fallback
\* with severity Debug, ticks and the passing of time change neither the
\* message, nor its severity, nor receive_instant.
C14_TickKeepsTimerAndDecayIdempotent ==
    /\ [][last_op'.op = "ui" =>
            UNCHANGED <<receive_instant, min_notification_level, tip_message>>]_vars
    /\ [][(/\ now > receive_instant + TIMEOUT
           /\ message = CurrentFallback
           /\ current_level = Debug
           /\ last_op'.op \in {"ui", "advance"})
          => UNCHANGED <<message, current_level, receive_instant>>]_vars

C14_Witness ==
    /\ IsUi
    /\ PreExpired
    /\ pre.message \in TipTexts
    /\ pre.current_level = Debug
    /\ message = pre.message
    /\ tip_message = <<message>>
    /\ receive_instant = pre.receive_instant
    /\ receive_instant > 0

\* The display is in its idle state: it shows the fallback text of a decay
\* (or of the construction) with severity Debug.
Idle ==
    /\ shown = NoEvent
    /\ current_level = Debug
    /\ message \in {NO_NOTIFICATIONS_MESSAGE} \cup TipTexts

\* C15: a displayed event eventually decays to the idle string or a tip with
\* severity Debug, when time keeps advancing, ticks keep running and pushes
\* stop; and the display leaves the idle state only by an accepted push,
\* changes while displaying only by an accepted push, and returns to the
\* idle state only by a tick after the window has expired.
C15_DisplayedEventuallyDecays ==
    /\ (shown # NoEvent) ~> Idle
    /\ [][/\ (Idle /\ ~Idle') =>
                (last_op'.op = "push_notification" /\ last_op'.accepted)
          /\ (~Idle /\ ~Idle' /\ <<message, current_level, receive_instant>>'
                                   # <<message, current_level, receive_instant>>) =>
                (last_op'.op = "push_notification" /\ last_op'.accepted)
          /\ (~Idle /\ Idle') =>
                (last_op'.op = "ui" /\ now > receive_instant + TIMEOUT)]_vars

C15_Witness ==
    /\ IsUi
    /\ Idle
    /\ pre.message \in Contents
    /\ pre.current_level = Info
    /\ pre.receive_instant = 1
    /\ now = MaxTime

\* C16: the displayed message is the content of the most recently accepted
\* event, or the idle string or a tip text put there by a decay; and the
\* message changes only to the content of the event a push is accepting or,
\* at a render tick, to the tip held at that tick or the idle string: the
\* content of a dropped event is kept nowhere.
C16_NoQueueNoHistory ==
    /\ [](\/ (shown # NoEvent /\ message = shown.content)
          \/ (shown = NoEvent /\ message = NO_NOTIFICATIONS_MESSAGE)
          \/ (shown = NoEvent /\ message \in TipTexts))
    /\ [][message' # message =>
            \/ /\ last_op'.op = "push_notification"
               /\ last_op'.accepted
               /\ message' = last_op'.event.content
               /\ shown' = last_op'.event
            \/ /\ last_op'.op = "ui"
               /\ message' = CurrentFallback]_vars

C16_Witness ==
    /\ IsPush
    /\ ~last_op.accepted
    /\ last_op.event.severity >= MinSeverity(last_op.from_dashboard)
    /\ shown # NoEvent
    /\ shown.content # last_op.event.content
    /\ message = shown.content
    /\ now > receive_instant

\* C17: right after a render tick, either no more than TIMEOUT has elapsed
\* since receive_instant or the bar shows the current fallback with severity
\* Debug; so a tick never leaves a severity other than Debug on display once
\* the window has expired.
C17_AfterTickExpiredIsDebug ==
    IsUi =>
        \/ now <= receive_instant + TIMEOUT
        \/ (current_level = Debug /\ message = CurrentFallback)

C17_Witness ==
    /\ IsUi
    /\ now = receive_instant + TIMEOUT + 1
    /\ pre.message \in Contents
    /\ pre.current_level = Info
    /\ tip_message = None
    /\ message = NO_NOTIFICATIONS_MESSAGE
    /\ current_level = Debug

\* C18: update_settings never changes message, current_level,
\* receive_instant or expanded; a tip text displayed while the tip is
\* disabled stays displayed until a render tick, which replaces it with the
\* idle string.
C18_UpdateSettingsKeepsDisplay ==
    /\ [][last_op'.op = "update_settings" =>
            UNCHANGED <<message, current_level, receive_instant, expanded>>]_vars
    /\ [][(/\ tip_message = None
           /\ message \in TipTexts
           /\ last_op'.op = "ui")
          => message' = NO_NOTIFICATIONS_MESSAGE]_vars

C18_Witness ==
    /\ IsUi
    /\ pre.message \in TipTexts
    /\ tip_message = None
    /\ ~latest_settings.show_notification_tip
    /\ message = NO_NOTIFICATIONS_MESSAGE
    /\ current_level = Debug

\* C19: receive_instant never exceeds the clock and never decreases; it
\* changes only in a push that accepts its event, and is then the time of
\* that call.
C19_ReceiveInstantMonotonic ==
    /\ [](receive_instant <= now)
    /\ [][/\ receive_instant' >= receive_instant
          /\ receive_instant' # receive_instant =>
                /\ last_op'.op = "push_notification"
                /\ last_op'.accepted
                /\ receive_instant' = now']_vars

C19_Witness ==
    /\ IsPush
    /\ last_op.accepted
    /\ receive_instant = now
    /\ pre.receive_instant < receive_instant
    /\ pre.receive_instant > 0
    /\ pre.message \in Contents

====
